---- MODULE Spec2Model ----
(***************************************************************************)
(* The CSV ingestion function main() of src/main.py: one run of the        *)
(* handler over one uploaded object, against a PostgreSQL session reached  *)
(* through psycopg2.  The database is modelled by what the statements the  *)
(* code sends do to a transaction (savepoints, rollback, commit); every    *)
(* driver call may raise, and what it raises is a nondeterministic choice. *)
(***************************************************************************)
EXTENDS Integers, Sequences, FiniteSets, TLC

\* Largest number of data rows of an input file.
MaxRows == 3

----------------------------------------------------------------------------
(* Values of a parsed row.  A text is a sequence of characters.  *)

Str(s) == [kind |-> "str", s |-> s]
None == [kind |-> "none", s |-> <<>>]
\* csv.DictReader stores the fields beyond the header as a list under the key None.
RestList == [kind |-> "list", s |-> <<>>]

\* The header line of the file: the column names, in order.
Header == << <<"a">>, <<"b">> >>

\* The data lines the input is drawn from, each the sequence of its fields.
RowPool ==
  { << <<"x">>, <<" ", "y", " ">> >>,      \* full row, padded value
    << <<>>, <<" ", " ">> >>,               \* blank once trimmed
    << <<"x">> >>,                         \* short row: b is missing
    << <<" ">> >>,                          \* short row, blank once trimmed
    << <<"x">>, <<"y">>, <<"z">> >> }      \* more fields than the header

Datasets == UNION { [1..n -> RowPool] : n \in 0..MaxRows }

\* str.strip(): the text without its leading and trailing whitespace.
RECURSIVE LStrip(_)
LStrip(s) == IF s # <<>> /\ Head(s) = " " THEN LStrip(Tail(s)) ELSE s
RECURSIVE RStrip(_)
RStrip(s) ==
  IF s # <<>> /\ s[Len(s)] = " " THEN RStrip(SubSeq(s, 1, Len(s) - 1)) ELSE s
Strip(s) == RStrip(LStrip(s))

\* csv.DictReader: one mapping per data line, as the pairs (key, value) in
\* order; a missing field is None, the fields beyond the header go under None.
DictRow(fields) ==
  LET named == [i \in 1..Len(Header) |->
                  [key |-> Str(Header[i]),
                   val |-> IF i <= Len(fields) THEN Str(fields[i]) ELSE None]]
  IN IF Len(fields) > Len(Header)
       THEN Append(named, [key |-> None, val |-> RestList])
       ELSE named

\* c.strip() for c in row.keys() raises AttributeError on the key None.
KeysRaise(rec) == \E i \in 1..Len(rec) : rec[i].key.kind # "str"

Columns(rec) == [i \in 1..Len(rec) |-> Str(Strip(rec[i].key.s))]

\* row[col]: the value under the key col; KeyError when there is none.
HasKey(rec, col) == \E i \in 1..Len(rec) : rec[i].key = col
Lookup(rec, col) == rec[CHOOSE i \in 1..Len(rec) : rec[i].key = col].val

LookupRaises(rec) == \E i \in 1..Len(rec) : ~HasKey(rec, Columns(rec)[i])

\* The value kept as it is read, whitespace and all.
TrimValue_NoStrip(v) == v

\* row[col].strip() if isinstance(row[col], str) else row[col]
TrimValue(v) == IF v.kind = "str" THEN Str(Strip(v.s)) ELSE v

Values(rec) == [i \in 1..Len(rec) |-> TrimValue(Lookup(rec, Columns(rec)[i]))]

\* all(v == "" or v is None for v in values)
AllEmpty(values) ==
  \A i \in 1..Len(values) : values[i] = Str(<<>>) \/ values[i].kind = "none"

----------------------------------------------------------------------------
(* The database session.  A transaction is the sequence of what it holds: *)
(* a row (its index in the file) or the mark of a savepoint sp_row.       *)

SP == 0

NewConn ==
  [open |-> TRUE, lost |-> FALSE, aborted |-> FALSE, txn |-> <<>>,
   closeAttempted |-> FALSE]

Alive(c) == c.open /\ ~c.lost

HasSavepoint(c) == \E i \in 1..Len(c.txn) : c.txn[i] = SP
LastSavepoint(c) ==
  CHOOSE i \in 1..Len(c.txn) :
    c.txn[i] = SP /\ \A j \in (i + 1)..Len(c.txn) : c.txn[j] # SP

\* SAVEPOINT sp_row
DoSavepoint(c) == [c EXCEPT !.txn = Append(@, SP)]
\* The inserted row put ahead of what the transaction holds.
DoInsert_Front(c, r) == [c EXCEPT !.txn = <<r>> \o @]

\* INSERT of row r
DoInsert(c, r) == [c EXCEPT !.txn = Append(@, r)]
\* RELEASE SAVEPOINT sp_row: the newest sp_row goes, what followed it stays.
DoRelease(c) ==
  LET k == LastSavepoint(c)
  IN [c EXCEPT !.txn = SubSeq(@, 1, k - 1) \o SubSeq(@, k + 1, Len(@))]
\* ROLLBACK TO SAVEPOINT sp_row: what followed the newest sp_row is undone,
\* the savepoint itself stays, the transaction is usable again.
DoRollbackTo(c) ==
  [c EXCEPT !.txn = SubSeq(@, 1, LastSavepoint(c)), !.aborted = FALSE]
\* ROLLBACK of the whole transaction
DoRollback(c) == [c EXCEPT !.txn = <<>>, !.aborted = FALSE]
\* A statement error leaves the transaction aborted until it is rolled back.
StmtError(c) == [c EXCEPT !.aborted = TRUE]
\* The link to the server is lost: the server discards the transaction.
LinkLost(c) == [c EXCEPT !.lost = TRUE, !.txn = <<>>, !.aborted = FALSE]
\* close(): the connection is closed, its open transaction discarded.
DoClose(c) ==
  [c EXCEPT !.open = FALSE, !.txn = <<>>, !.aborted = FALSE,
            !.closeAttempted = TRUE]
CloseFailed(c) == [c EXCEPT !.closeAttempted = TRUE]

\* The rows a transaction holds, in order.
TxnRows(c) == SelectSeq(c.txn, LAMBDA e : e # SP)

\* What a failing call can leave behind on a connection.
Failures(c) == IF Alive(c) THEN {StmtError(c), LinkLost(c)} ELSE {c}
LinkFailures(c) == IF Alive(c) THEN {LinkLost(c)} ELSE {c}

----------------------------------------------------------------------------
VARIABLES
  blobExists,      \* blob.exists()
  rows,            \* the data lines of the object
  pc,              \* where main() stands
  idx,             \* enumerate(rows, start=1): the row being processed
  rows_inserted,
  conn,            \* the connection the name conn is bound to (0: unbound)
  cur,             \* the connection whose cursor the name cur is bound to
  conns,           \* every connection the run opened, in order
  table,           \* the rows of this batch persisted in company.employee
  failedAt,        \* the statement of the current row that raised
  skipped_empty,   \* "Skipping empty row" lines logged
  rejected,        \* "Insert failed for row" lines logged
  reconnect_count, \* sessions re-established after a fatal failure
  committed,       \* conn.commit() returned
  exc,             \* the exception main() ended with, if any
  hist             \* what happened so far, for the properties

\* The request the uploader service (src/services/uploader/main.py) is
\* answering, with what get_signed_url has computed for it so far.
VARIABLE up

\* The variables of the ingestion function.
ingest ==
  <<blobExists, rows, pc, idx, rows_inserted, conn, cur, conns, table,
    failedAt, skipped_empty, rejected, reconnect_count, committed, exc, hist>>

vars == <<ingest, up>>

counters == <<skipped_empty, rejected, reconnect_count>>
input == <<blobExists, rows>>

\* reader = csv.DictReader(csv_text.splitlines()); rows = list(reader)
Records == [i \in 1..Len(rows) |-> DictRow(rows[i])]

InitHist ==
  [released |-> {},          \* rows whose savepoint was released
   isolated |-> {},          \* rows whose failed insert was rolled back to sp_row
   executed |-> {},          \* the kinds of statement sent to the database
   fatal |-> 0,              \* failed ROLLBACK TO SAVEPOINT
   connects |-> 0,           \* connection attempts
   reconnects |-> 0,         \* connection attempts after a fatal failure
   initFailed |-> FALSE,     \* the initial connection or its cursor failed
   reconnectFailed |-> FALSE,\* a reconnection or its cursor failed
   commitFailed |-> FALSE,   \* conn.commit() raised
   rollbackFailed |-> FALSE, \* the rollback after a failed commit raised
   faults |-> FALSE,         \* some database call raised
   commits |-> 0,            \* calls of conn.commit()
   releasedOn |-> {},        \* <<row, connection>> of every released savepoint
   stale |-> FALSE,          \* a ROLLBACK TO reached the sp_row of an earlier row
   past |-> <<>>]            \* what the earlier runs over this object reported

\* The uploader before any request has arrived.
NoRequest == [pc |-> "idle"]

Init ==
  /\ blobExists \in BOOLEAN
  /\ rows \in Datasets
  /\ pc = "exists"
  /\ idx = 0
  /\ rows_inserted = 0
  /\ conn = 0
  /\ cur = 0
  /\ conns = <<>>
  /\ table = <<>>
  /\ failedAt = "none"
  /\ skipped_empty = 0
  /\ rejected = 0
  /\ reconnect_count = 0
  /\ committed = FALSE
  /\ exc = "none"
  /\ hist = InitHist
  /\ up = NoRequest

Sent(kind) == [hist EXCEPT !.executed = @ \cup {kind}]
SentFailed(kind) == [hist EXCEPT !.executed = @ \cup {kind}, !.faults = TRUE]

\* The test of blob.exists() without its return.
CheckBlob_NoReturn ==
  /\ pc = "exists"
  /\ pc' = "connect"
  /\ UNCHANGED <<up, input, idx, rows_inserted, conn, cur, conns, table, failedAt,
                 counters, committed, exc, hist>>

\* if not blob.exists(): return
CheckBlob ==
  /\ pc = "exists"
  /\ pc' = IF blobExists THEN "connect" ELSE "done"
  /\ UNCHANGED <<up, input, idx, rows_inserted, conn, cur, conns, table, failedAt,
                 counters, committed, exc, hist>>

\* conn = psycopg2.connect(...); cur = conn.cursor(); on an exception, return
Connect ==
  /\ pc = "connect"
  /\ \/ /\ conns' = Append(conns, NewConn)
        /\ conn' = Len(conns) + 1
        /\ cur' = Len(conns) + 1
        /\ pc' = "loop"
        /\ hist' = [hist EXCEPT !.connects = @ + 1]
     \/ /\ UNCHANGED <<conns, conn, cur>>
        /\ pc' = "done"
        /\ hist' = [hist EXCEPT !.connects = @ + 1, !.initFailed = TRUE,
                                !.faults = TRUE]
     \/ /\ conns' = Append(conns, NewConn)
        /\ conn' = Len(conns) + 1
        /\ UNCHANGED cur
        /\ pc' = "done"
        /\ hist' = [hist EXCEPT !.connects = @ + 1, !.initFailed = TRUE,
                                !.faults = TRUE]
  /\ UNCHANGED <<up, input, idx, rows_inserted, table, failedAt, counters,
                 committed, exc>>

\* for idx, row in enumerate(rows, start=1): columns, values, the empty test
NextRow ==
  /\ pc = "loop"
  /\ idx < Len(rows)
  /\ idx' = idx + 1
  /\ LET rec == Records[idx + 1]
     IN IF KeysRaise(rec)
          THEN /\ pc' = "raised"
               /\ exc' = "AttributeError"
               /\ UNCHANGED skipped_empty
          ELSE IF LookupRaises(rec)
          THEN /\ pc' = "raised"
               /\ exc' = "KeyError"
               /\ UNCHANGED skipped_empty
          ELSE IF AllEmpty(Values(rec))
          THEN /\ pc' = "loop"
               /\ skipped_empty' = skipped_empty + 1
               /\ UNCHANGED exc
          ELSE /\ pc' = "savepoint"
               /\ UNCHANGED <<skipped_empty, exc>>
  /\ UNCHANGED <<up, input, rows_inserted, conn, cur, conns, table, failedAt,
                 rejected, reconnect_count, committed, hist>>

\* the loop is exhausted
EndOfRows ==
  /\ pc = "loop"
  /\ idx = Len(rows)
  /\ pc' = "commit"
  /\ UNCHANGED <<up, input, idx, rows_inserted, conn, cur, conns, table, failedAt,
                 counters, committed, exc, hist>>

\* cur.execute("SAVEPOINT sp_row")
Savepoint ==
  /\ pc = "savepoint"
  /\ \/ /\ Alive(conns[cur]) /\ ~conns[cur].aborted
        /\ conns' = [conns EXCEPT ![cur] = DoSavepoint(@)]
        /\ pc' = "insert"
        /\ hist' = Sent("SAVEPOINT")
        /\ UNCHANGED failedAt
     \/ /\ \E f \in Failures(conns[cur]) : conns' = [conns EXCEPT ![cur] = f]
        /\ pc' = "handler"
        /\ failedAt' = "savepoint"
        /\ hist' = SentFailed("SAVEPOINT")
  /\ UNCHANGED <<up, input, idx, rows_inserted, conn, cur, table, counters,
                 committed, exc>>

\* cur.execute(insert_stmt, values)
Insert ==
  /\ pc = "insert"
  /\ \/ /\ Alive(conns[cur]) /\ ~conns[cur].aborted
        /\ conns' = [conns EXCEPT ![cur] = DoInsert(@, idx)]
        /\ pc' = "release"
        /\ hist' = Sent("INSERT")
        /\ UNCHANGED failedAt
     \/ /\ \E f \in Failures(conns[cur]) : conns' = [conns EXCEPT ![cur] = f]
        /\ pc' = "handler"
        /\ failedAt' = "insert"
        /\ hist' = SentFailed("INSERT")
  /\ UNCHANGED <<up, input, idx, rows_inserted, conn, cur, table, counters,
                 committed, exc>>

\* The release of the savepoint without the count of the row.
Release_NoCount ==
  /\ pc = "release"
  /\ \/ /\ Alive(conns[cur]) /\ ~conns[cur].aborted /\ HasSavepoint(conns[cur])
        /\ conns' = [conns EXCEPT ![cur] = DoRelease(@)]
        /\ pc' = "loop"
        /\ hist' = [Sent("RELEASE") EXCEPT !.released = @ \cup {idx},
                                        !.releasedOn = @ \cup {<<idx, cur>>}]
        /\ UNCHANGED failedAt
     \/ /\ \E f \in Failures(conns[cur]) : conns' = [conns EXCEPT ![cur] = f]
        /\ pc' = "handler"
        /\ failedAt' = "release"
        /\ hist' = SentFailed("RELEASE")
  /\ UNCHANGED <<up, input, idx, rows_inserted, conn, cur, table, counters,
                 committed, exc>>

\* cur.execute("RELEASE SAVEPOINT sp_row"); rows_inserted += 1
Release ==
  /\ pc = "release"
  /\ \/ /\ Alive(conns[cur]) /\ ~conns[cur].aborted /\ HasSavepoint(conns[cur])
        /\ conns' = [conns EXCEPT ![cur] = DoRelease(@)]
        /\ rows_inserted' = rows_inserted + 1
        /\ pc' = "loop"
        /\ hist' = [Sent("RELEASE") EXCEPT !.released = @ \cup {idx},
                                        !.releasedOn = @ \cup {<<idx, cur>>}]
        /\ UNCHANGED failedAt
     \/ /\ \E f \in Failures(conns[cur]) : conns' = [conns EXCEPT ![cur] = f]
        /\ UNCHANGED rows_inserted
        /\ pc' = "handler"
        /\ failedAt' = "release"
        /\ hist' = SentFailed("RELEASE")
  /\ UNCHANGED <<up, input, idx, conn, cur, table, counters, committed, exc>>

\* except Exception: log the statement and the values;
\* cur.execute("ROLLBACK TO SAVEPOINT sp_row")
RollbackToSavepoint ==
  /\ pc = "handler"
  /\ rejected' = rejected + 1
  /\ \/ /\ Alive(conns[cur]) /\ HasSavepoint(conns[cur])
        /\ conns' = [conns EXCEPT ![cur] = DoRollbackTo(@)]
        /\ pc' = "loop"
        /\ hist' = [Sent("ROLLBACK TO") EXCEPT
                      !.isolated = IF failedAt = "insert" THEN @ \cup {idx} ELSE @,
                      !.stale = @ \/ failedAt = "savepoint"]
     \/ /\ \E f \in Failures(conns[cur]) : conns' = [conns EXCEPT ![cur] = f]
        /\ pc' = "full_rollback"
        /\ hist' = [SentFailed("ROLLBACK TO") EXCEPT !.fatal = @ + 1]
  /\ failedAt' = "none"
  /\ UNCHANGED <<up, input, idx, rows_inserted, conn, cur, table, skipped_empty,
                 reconnect_count, committed, exc>>

\* except Exception: conn.rollback()   -- not guarded: what it raises leaves main
FullRollback ==
  /\ pc = "full_rollback"
  /\ \/ /\ Alive(conns[conn])
        /\ conns' = [conns EXCEPT ![conn] = DoRollback(@)]
        /\ pc' = "close_old"
        /\ hist' = Sent("ROLLBACK")
        /\ UNCHANGED exc
     \/ /\ \E f \in LinkFailures(conns[conn]) :
             conns' = [conns EXCEPT ![conn] = f]
        /\ pc' = "raised"
        /\ exc' = "DatabaseError"
        /\ hist' = SentFailed("ROLLBACK")
  /\ UNCHANGED <<up, input, idx, rows_inserted, conn, cur, table, failedAt,
                 counters, committed>>

\* try: conn.close() except Exception: pass; time.sleep(1)
CloseOld ==
  /\ pc = "close_old"
  /\ \/ /\ conns' = [conns EXCEPT ![conn] = DoClose(@)]
        /\ UNCHANGED hist
     \/ /\ conns' = [conns EXCEPT ![conn] = CloseFailed(@)]
        /\ hist' = [hist EXCEPT !.faults = TRUE]
  /\ pc' = "reconnect"
  /\ UNCHANGED <<up, input, idx, rows_inserted, conn, cur, table, failedAt,
                 counters, committed, exc>>

\* The reconnection tried again, after another pause, until it succeeds.
Reconnect_Retry ==
  /\ pc = "reconnect"
  /\ \/ /\ conns' = Append(conns, NewConn)
        /\ conn' = Len(conns) + 1
        /\ cur' = Len(conns) + 1
        /\ reconnect_count' = reconnect_count + 1
        /\ pc' = "loop"
        /\ hist' = [hist EXCEPT !.connects = @ + 1, !.reconnects = @ + 1]
     \/ /\ UNCHANGED <<conns, conn, cur, reconnect_count>>
        /\ pc' = "close_old"
        /\ hist' = [hist EXCEPT !.reconnectFailed = TRUE, !.faults = TRUE]
  /\ UNCHANGED <<up, input, idx, rows_inserted, table, failedAt, skipped_empty,
                 rejected, committed, exc>>

\* conn = psycopg2.connect(...); cur = conn.cursor(); on an exception, break
Reconnect ==
  /\ pc = "reconnect"
  /\ \/ /\ conns' = Append(conns, NewConn)
        /\ conn' = Len(conns) + 1
        /\ cur' = Len(conns) + 1
        /\ reconnect_count' = reconnect_count + 1
        /\ pc' = "loop"
        /\ hist' = [hist EXCEPT !.connects = @ + 1, !.reconnects = @ + 1]
     \/ /\ UNCHANGED <<conns, conn, cur, reconnect_count>>
        /\ pc' = "commit"
        /\ hist' = [hist EXCEPT !.connects = @ + 1, !.reconnects = @ + 1,
                                !.reconnectFailed = TRUE, !.faults = TRUE]
     \/ /\ conns' = Append(conns, NewConn)
        /\ conn' = Len(conns) + 1
        /\ UNCHANGED <<cur, reconnect_count>>
        /\ pc' = "commit"
        /\ hist' = [hist EXCEPT !.connects = @ + 1, !.reconnects = @ + 1,
                                !.reconnectFailed = TRUE, !.faults = TRUE]
  /\ UNCHANGED <<up, input, idx, rows_inserted, table, failedAt, skipped_empty,
                 rejected, committed, exc>>

\* The commit reported before conn.commit() is called.
Commit_ReportedFirst ==
  /\ pc = "commit"
  /\ committed' = TRUE
  /\ \/ /\ Alive(conns[conn])
        /\ table' = table \o (IF conns[conn].aborted THEN <<>>
                                                    ELSE TxnRows(conns[conn]))
        /\ conns' = [conns EXCEPT ![conn] = DoRollback(@)]
        /\ pc' = "cur_close"
        /\ hist' = [Sent("COMMIT") EXCEPT !.commits = @ + 1]
     \/ /\ \E f \in IF Alive(conns[conn])
                      THEN {DoRollback(conns[conn]), LinkLost(conns[conn])}
                      ELSE {conns[conn]} :
             conns' = [conns EXCEPT ![conn] = f]
        /\ UNCHANGED table
        /\ pc' = "commit_rollback"
        /\ hist' = [SentFailed("COMMIT") EXCEPT !.commitFailed = TRUE,
                                                !.commits = @ + 1]
  /\ UNCHANGED <<up, input, idx, rows_inserted, conn, cur, failedAt, counters, exc>>

\* A commit that leaves out the rows the table already holds.
Commit_SkipDuplicates ==
  /\ pc = "commit"
  /\ \/ /\ Alive(conns[conn])
        /\ table' = table \o
             (IF conns[conn].aborted THEN <<>>
              ELSE SelectSeq(TxnRows(conns[conn]),
                             LAMBDA r : \A i \in 1..Len(table) : table[i] # r))
        /\ conns' = [conns EXCEPT ![conn] = DoRollback(@)]
        /\ committed' = TRUE
        /\ pc' = "cur_close"
        /\ hist' = [Sent("COMMIT") EXCEPT !.commits = @ + 1]
     \/ /\ \E f \in IF Alive(conns[conn])
                      THEN {DoRollback(conns[conn]), LinkLost(conns[conn])}
                      ELSE {conns[conn]} :
             conns' = [conns EXCEPT ![conn] = f]
        /\ UNCHANGED <<table, committed>>
        /\ pc' = "commit_rollback"
        /\ hist' = [SentFailed("COMMIT") EXCEPT !.commitFailed = TRUE,
                                                !.commits = @ + 1]
  /\ UNCHANGED <<up, input, idx, rows_inserted, conn, cur, failedAt, counters, exc>>

\* conn.commit(): the transaction's rows become durable, or it raises
Commit ==
  /\ pc = "commit"
  /\ \/ /\ Alive(conns[conn])
        /\ table' = table \o (IF conns[conn].aborted THEN <<>>
                                                    ELSE TxnRows(conns[conn]))
        /\ conns' = [conns EXCEPT ![conn] = DoRollback(@)]
        /\ committed' = TRUE
        /\ pc' = "cur_close"
        /\ hist' = [Sent("COMMIT") EXCEPT !.commits = @ + 1]
     \/ /\ \E f \in IF Alive(conns[conn])
                      THEN {DoRollback(conns[conn]), LinkLost(conns[conn])}
                      ELSE {conns[conn]} :
             conns' = [conns EXCEPT ![conn] = f]
        /\ UNCHANGED <<table, committed>>
        /\ pc' = "commit_rollback"
        /\ hist' = [SentFailed("COMMIT") EXCEPT !.commitFailed = TRUE,
                                                !.commits = @ + 1]
  /\ UNCHANGED <<up, input, idx, rows_inserted, conn, cur, failedAt, counters, exc>>

\* except Exception: try: conn.rollback() except Exception: pass
CommitRollback ==
  /\ pc = "commit_rollback"
  /\ \/ /\ Alive(conns[conn])
        /\ conns' = [conns EXCEPT ![conn] = DoRollback(@)]
        /\ hist' = Sent("ROLLBACK")
     \/ /\ \E f \in LinkFailures(conns[conn]) :
             conns' = [conns EXCEPT ![conn] = f]
        /\ hist' = [SentFailed("ROLLBACK") EXCEPT !.rollbackFailed = TRUE]
  /\ pc' = "cur_close"
  /\ UNCHANGED <<up, input, idx, rows_inserted, conn, cur, table, failedAt,
                 counters, committed, exc>>

\* finally: try: cur.close() ... : what cur.close() raises skips conn.close()
CloseCursor ==
  /\ pc = "cur_close"
  /\ \/ /\ pc' = "conn_close"
        /\ UNCHANGED hist
     \/ /\ pc' = "done"
        /\ hist' = [hist EXCEPT !.faults = TRUE]
  /\ UNCHANGED <<up, input, idx, rows_inserted, conn, cur, conns, table, failedAt,
                 counters, committed, exc>>

\* ... conn.close() except Exception: pass
CloseConn ==
  /\ pc = "conn_close"
  /\ \/ /\ conns' = [conns EXCEPT ![conn] = DoClose(@)]
        /\ UNCHANGED hist
     \/ /\ conns' = [conns EXCEPT ![conn] = CloseFailed(@)]
        /\ hist' = [hist EXCEPT !.faults = TRUE]
  /\ pc' = "done"
  /\ UNCHANGED <<up, input, idx, rows_inserted, conn, cur, table, failedAt,
                 counters, committed, exc>>

Next ==
  \/ CheckBlob
  \/ Connect
  \/ NextRow
  \/ EndOfRows
  \/ Savepoint
  \/ Insert
  \/ Release
  \/ RollbackToSavepoint
  \/ FullRollback
  \/ CloseOld
  \/ Reconnect
  \/ Commit
  \/ CommitRollback
  \/ CloseCursor
  \/ CloseConn

Spec == Init /\ [][Next]_vars

\* main() has ended: it returned, or an exception left it.
Ended == pc \in {"done", "raised"}

\* The trigger delivers the event of the same object once more (delivery is
\* at least once): main starts again over the same rows and the same table.
\* The first run is one that met no failure.
Redeliver ==
  /\ Ended
  /\ hist.past = <<>>
  /\ ~hist.faults
  /\ pc' = "exists"
  /\ idx' = 0
  /\ rows_inserted' = 0
  /\ conn' = 0
  /\ cur' = 0
  /\ conns' = <<>>
  /\ failedAt' = "none"
  /\ skipped_empty' = 0
  /\ rejected' = 0
  /\ reconnect_count' = 0
  /\ committed' = FALSE
  /\ exc' = "none"
  /\ hist' = [InitHist EXCEPT
               !.past = <<[inserted |-> rows_inserted, ended |-> pc]>>]
  /\ UNCHANGED <<up, input, table>>

NextTwice == Next \/ Redeliver

SpecTwice == Init /\ [][NextTwice]_vars

----------------------------------------------------------------------------
(* The uploader service, src/services/uploader/main.py: one POST request  *)
(* to /get-signed-url.  Token verification, the approvals lookup, URL      *)
(* signing and the audit write are calls to other services: each returns   *)
(* or raises, a nondeterministic choice.                                   *)

BUCKET == "ingest-pipeline"
UPLOAD_PREFIX == <<"incoming", "/">>
SIGNED_URL_EXP_MIN == 15

\* A field a mapping does not hold, and a number (a value that is not a text).
Absent == [kind |-> "absent", s |-> <<>>]
Number == [kind |-> "int", s |-> <<>>]

\* The Authorization header of the request, as its characters; the two
\* tokens are pieces of text without a space in them.
AuthHeaders ==
  { <<>>,                                  \* no header
    <<"Basic", " ", "good">>,
    <<"Bearer", "good">>,                  \* no space after the scheme
    <<"Bearer", " ">>,                     \* no token
    <<"Bearer", " ", "good">>,
    <<"Bearer", " ", " ", "good", " ">>,   \* padded token
    <<"Bearer", " ", "forged">> }

\* auth_header.startswith("Bearer ")
StartsWithBearer(h) == Len(h) >= 2 /\ h[1] = "Bearer" /\ h[2] = " "

\* auth_header.split(" ", 1)[1].strip()
RECURSIVE AfterFirstSpace(_)
AfterFirstSpace(h) ==
  IF h = <<>> THEN <<>>
  ELSE IF Head(h) = " " THEN Tail(h)
  ELSE AfterFirstSpace(Tail(h))
IdToken(h) == Strip(AfterFirstSpace(h))

\* The tokens auth.verify_id_token accepts: those the identity provider signed.
Genuine(token) == token = <<"good">>

\* The claims of a verified token.
Decoded == [uid |-> "u1", email |-> "u1@example.org"]

\* What the document approvals/<uid> may hold under "approved", as Python
\* values written out; a document may also lack the field, or not exist.
ApprovedValues == {"True", "False", "'yes'", "''", "1", "0", "None"}
ApprovalDocs ==
  {[exists |-> FALSE, approved |-> "<no field>"]} \cup
  {[exists |-> TRUE, approved |-> v] : v \in ApprovedValues \cup {"<no field>"}}

\* bool(data.get("approved", False))
Truthy(v) == v \notin {"False", "''", "0", "None"}
ApprovedField(doc) ==
  Truthy(IF doc.approved = "<no field>" THEN "False" ELSE doc.approved)

\* The names a client may ask for.
Filenames ==
  { <<"a">>,
    <<"a", "/", "b">>,
    <<".", ".", "/", "a">>,
    <<".", ".", ".">>,
    <<"/", ".", "/">> }

\* The request bodies: not JSON at all, a JSON array, or a JSON object with
\* or without "filename" and "content_type".
Bodies ==
  {[kind |-> k, filename |-> Absent, content_type |-> Absent] :
      k \in {"malformed", "array"}} \cup
  {[kind |-> "object", filename |-> f, content_type |-> c] :
      f \in {Absent, None, Number, Str(<<>>)} \cup {Str(n) : n \in Filenames},
      c \in {Absent, Str(<<"text/csv">>)}}

\* The instants, in minutes, at which datetime.now may be read.
Clock == {0, 50}

\* filename.replace("..", "_"): the occurrences are found left to right and
\* do not overlap.
RECURSIVE ReplaceDotDot(_)
ReplaceDotDot(s) ==
  IF s = <<>> THEN <<>>
  ELSE IF Len(s) >= 2 /\ s[1] = "." /\ s[2] = "."
    THEN <<"_">> \o ReplaceDotDot(SubSeq(s, 3, Len(s)))
  ELSE <<Head(s)>> \o ReplaceDotDot(Tail(s))

\* .replace("/", "_")
ReplaceSlash(s) == [i \in 1..Len(s) |-> IF s[i] = "/" THEN "_" ELSE s[i]]

SafeName(filename) == ReplaceSlash(ReplaceDotDot(filename))
ObjectName(filename) == UPLOAD_PREFIX \o SafeName(filename)

\* body.get("content_type", "application/octet-stream")
ContentType(body) ==
  IF body.content_type = Absent THEN Str(<<"application/octet-stream">>)
  ELSE body.content_type

\* What blob.generate_signed_url signs.
SignedUrl(object_name, content_type) ==
  [bucket |-> BUCKET, object |-> object_name, version |-> "v4",
   method |-> "PUT", minutes |-> SIGNED_URL_EXP_MIN,
   content_type |-> content_type]

\* A request as it arrives; a field computed later holds <<>> until then.
NewRequest(header, doc, body) ==
  [pc |-> "verify",
   header |-> header,        \* the Authorization header
   doc |-> doc,              \* the document approvals/<uid of the token>
   body |-> body,
   decoded |-> <<>>,         \* the claims verify_id_token returned
   object_name |-> <<>>,
   url |-> <<>>,
   expires_at |-> <<>>,
   upload_requests |-> <<>>, \* the audit records written
   log |-> {},               \* the messages logged
   status |-> 0,             \* the HTTP status answered
   response |-> <<>>,        \* the JSON answered
   verified |-> FALSE,       \* auth.verify_id_token returned
   lookedUp |-> FALSE,       \* doc_ref.get() returned
   signCalls |-> 0,          \* calls of generate_signed_url
   auditCalls |-> 0,         \* calls of record_upload_request
   now |-> <<>>,             \* the instant read at line 103
   raised |-> FALSE]         \* an exception left get_signed_url

InitUploader ==
  /\ up \in {NewRequest(h, d, b) : h \in AuthHeaders, d \in ApprovalDocs,
                                   b \in Bodies}
  /\ blobExists = FALSE
  /\ rows = <<>>
  /\ pc = "done"
  /\ idx = 0
  /\ rows_inserted = 0
  /\ conn = 0
  /\ cur = 0
  /\ conns = <<>>
  /\ table = <<>>
  /\ failedAt = "none"
  /\ skipped_empty = 0
  /\ rejected = 0
  /\ reconnect_count = 0
  /\ committed = FALSE
  /\ exc = "none"
  /\ hist = InitHist

\* return jsonify(payload), status
Reply(u, status, payload) ==
  [u EXCEPT !.pc = "responded", !.status = status, !.response = payload]

Error(text) == [error |-> text]

\* verify_id_token_from_header, and the 401 of get_signed_url
Verify ==
  /\ up.pc = "verify"
  /\ \/ /\ ~StartsWithBearer(up.header)
        /\ up' = Reply(up, 401, Error("unauthenticated"))
     \/ /\ StartsWithBearer(up.header)
        /\ Genuine(IdToken(up.header))
        /\ up' = [up EXCEPT !.pc = "approval", !.decoded = <<Decoded>>,
                            !.verified = TRUE]
     \/ /\ StartsWithBearer(up.header)     \* auth.verify_id_token raises
        /\ up' = [Reply(up, 401, Error("unauthenticated")) EXCEPT
                    !.log = @ \cup {"Token verification failed"}]
  /\ UNCHANGED ingest

\* An approvals lookup whose failure lets the request through.
CheckApproval_FailOpen ==
  /\ up.pc = "approval"
  /\ \/ /\ up.doc.exists /\ ApprovedField(up.doc)
        /\ up' = [up EXCEPT !.pc = "body", !.lookedUp = TRUE]
     \/ /\ ~(up.doc.exists /\ ApprovedField(up.doc))
        /\ up' = [Reply(up, 403, Error("user_not_approved")) EXCEPT
                    !.lookedUp = TRUE]
     \/ up' = [up EXCEPT !.pc = "body",
                         !.log = @ \cup {"Firestore check failed"}]
  /\ UNCHANGED ingest

\* is_user_approved, and the 403 of get_signed_url
CheckApproval ==
  /\ up.pc = "approval"
  /\ \/ /\ up.doc.exists /\ ApprovedField(up.doc)
        /\ up' = [up EXCEPT !.pc = "body", !.lookedUp = TRUE]
     \/ /\ ~(up.doc.exists /\ ApprovedField(up.doc))
        /\ up' = [Reply(up, 403, Error("user_not_approved")) EXCEPT
                    !.lookedUp = TRUE]
     \/ up' = [Reply(up, 403, Error("user_not_approved")) EXCEPT
                 !.log = @ \cup {"Firestore check failed"}]
  /\ UNCHANGED ingest

\* A text that is not empty: what passes "if not filename" and has .replace
IsName(v) == v.kind = "str" /\ v.s # <<>>

\* lines 77-85: the body is parsed, the filename checked and sanitized.
\* Flask answers 400 when get_json cannot parse the body, and 500 when an
\* exception leaves the handler (body.get on an array, .replace on a number).
ReadBody ==
  /\ up.pc = "body"
  /\ \/ /\ up.body.kind = "malformed"
        /\ up' = [Reply(up, 400, Error("Bad Request")) EXCEPT !.raised = TRUE]
     \/ /\ up.body.kind = "array"
        /\ up' = [Reply(up, 500, Error("Internal Server Error")) EXCEPT
                    !.raised = TRUE]
     \/ /\ up.body.kind = "object"
        /\ up.body.filename \in {Absent, None, Str(<<>>)}
        /\ up' = Reply(up, 400, Error("missing filename"))
     \/ /\ up.body.kind = "object"
        /\ up.body.filename = Number
        /\ up' = [Reply(up, 500, Error("Internal Server Error")) EXCEPT
                    !.raised = TRUE]
     \/ /\ up.body.kind = "object"
        /\ IsName(up.body.filename)
        /\ up' = [up EXCEPT !.pc = "sign",
                            !.object_name = ObjectName(up.body.filename.s)]
  /\ UNCHANGED ingest

\* lines 88-100: the signed URL, or the 500 when signing raises
GenerateUrl ==
  /\ up.pc = "sign"
  /\ \/ up' = [up EXCEPT !.pc = "record",
                         !.signCalls = @ + 1,
                         !.url = <<SignedUrl(up.object_name,
                                             ContentType(up.body))>>]
     \/ up' = [Reply(up, 500, Error("signed_url_failed")) EXCEPT
                 !.signCalls = @ + 1,
                 !.log = @ \cup {"Signed URL generation failed"}]
  /\ UNCHANGED ingest

\* The document record_upload_request writes.
AuditDoc(u, expires_at) ==
  [uid |-> u.decoded[1].uid, email |-> u.decoded[1].email,
   object_name |-> u.object_name, expires_at |-> expires_at,
   status |-> "issued"]

\* An audit step whose failure is answered with an error.
Record_Blocking ==
  /\ up.pc = "record"
  /\ \E t \in Clock :
       LET expires_at == t + SIGNED_URL_EXP_MIN
           u == [up EXCEPT !.now = <<t>>, !.expires_at = <<expires_at>>,
                           !.auditCalls = @ + 1]
       IN \/ up' = [u EXCEPT !.pc = "respond",
                             !.upload_requests =
                                Append(@, AuditDoc(up, expires_at))]
          \/ up' = [Reply(u, 500, Error("audit_failed")) EXCEPT
                      !.log = @ \cup {"Failed to record upload request"}]
  /\ UNCHANGED ingest

\* lines 103-104 and record_upload_request: the expiry is computed and the
\* audit record written; a failed write is logged and nothing more
Record ==
  /\ up.pc = "record"
  /\ \E t \in Clock :
       LET expires_at == t + SIGNED_URL_EXP_MIN
           u == [up EXCEPT !.pc = "respond", !.now = <<t>>,
                           !.expires_at = <<expires_at>>,
                           !.auditCalls = @ + 1]
       IN \/ up' = [u EXCEPT !.upload_requests =
                                Append(@, AuditDoc(up, expires_at))]
          \/ up' = [u EXCEPT !.log =
                                @ \cup {"Failed to record upload request"}]
  /\ UNCHANGED ingest

\* line 106: the answer of a request that was granted
Respond ==
  /\ up.pc = "respond"
  /\ up' = Reply(up, 200, [url |-> up.url[1], object |-> up.object_name,
                           expires_at |-> up.expires_at[1]])
  /\ UNCHANGED ingest

NextUploader ==
  \/ Verify
  \/ CheckApproval
  \/ ReadBody
  \/ GenerateUrl
  \/ Record
  \/ Respond

SpecUploader == InitUploader /\ [][NextUploader]_vars

TypeOK ==
  /\ pc \in {"exists", "connect", "loop", "savepoint", "insert", "release",
             "handler", "full_rollback", "close_old", "reconnect", "commit",
             "commit_rollback", "cur_close", "conn_close", "done", "raised"}
  /\ idx \in 0..Len(rows)
  /\ rows_inserted \in 0..Len(rows)
  /\ conn \in 0..Len(conns)
  /\ cur \in 0..Len(conns)
  /\ Len(conns) <= Len(rows) + 1

----------------------------------------------------------------------------
(* The properties.  *)

Persisted == {table[i] : i \in 1..Len(table)}

\* A data line all of whose fields are missing or hold nothing but whitespace.
OnlySpaces(s) == \A i \in 1..Len(s) : s[i] = " "
BlankLine(fields) ==
  /\ Len(fields) <= Len(Header)
  /\ \A i \in 1..Len(fields) : OnlySpaces(fields[i])

\* C1: savepoint isolation. Once a row r whose insert failed has been rolled
\* back to its savepoint, every row released earlier in the batch is still in
\* the transaction, and after a successful commit those rows are persisted and
\* r is not.
C1_SavepointIsolation ==
  /\ (pc = "loop" /\ idx \in hist.isolated) =>
       \A p \in hist.released :
         \E i \in 1..Len(conns[cur].txn) : conns[cur].txn[i] = p
  /\ (pc = "done" /\ committed) =>
       \A r \in hist.isolated :
         /\ r \notin Persisted
         /\ \A p \in hist.released : p < r => p \in Persisted

\* C2: after a successful commit the number of rows of the batch persisted in
\* the table equals rows_inserted.
C2_InsertedRowsDurable == committed => Len(table) = rows_inserted

\* C3: every failed ROLLBACK TO SAVEPOINT is followed by exactly one connection
\* attempt, and every successful one adds one to reconnect_count.
C3_OneReconnectPerFatal ==
  pc \notin {"full_rollback", "close_old", "reconnect"} =>
    /\ hist.reconnects = hist.fatal
    /\ reconnect_count <= hist.reconnects

\* C4: once re-establishing the session has failed, no later row is attempted,
\* the run goes to finalization and ends with committed = FALSE.
C4_ReconnectFailureHalts ==
  hist.reconnectFailed =>
    /\ pc \in {"commit", "commit_rollback", "cur_close", "conn_close", "done"}
    /\ pc = "done" => ~committed

\* C5: once the final commit has failed, committed is FALSE and no row of the
\* batch is persisted, whatever the rollback that follows does.
C5_FailedCommitPersistsNothing ==
  hist.commitFailed => ~committed /\ table = <<>>

C5_Witness ==
  /\ pc = "done"
  /\ hist.commitFailed
  /\ hist.rollbackFailed
  /\ rows_inserted > 0

\* C6: a run over an existing object whose rows all hold some value, during
\* which no database call fails, ends with every row inserted and committed.
C6_AllLoadableAllInserted ==
  ( /\ Ended
    /\ blobExists
    /\ ~hist.faults
    /\ \A i \in 1..Len(rows) : ~BlankLine(rows[i]) ) =>
      /\ pc = "done"
      /\ rows_inserted = Len(rows)
      /\ committed

C8_NoWorkWithoutSourceOrSession ==
  ((~blobExists /\ pc # "exists") \/ hist.initFailed) =>
    /\ pc = "done"
    /\ hist.executed = {}
    /\ idx = 0
    /\ rows_inserted = 0
    /\ ~committed
    /\ table = <<>>

C8_Witness ==
  /\ pc = "done"
  /\ hist.initFailed
  /\ Len(conns) = 1
  /\ Len(rows) > 0

\* C9: no failure of a database call makes main end with an exception.
C9_NoExceptionEscapes == ~(pc = "raised" /\ exc = "DatabaseError")

\* C10: when a run whose initial session was established has returned, a
\* close has been attempted on every connection it opened.
C10_EveryConnectionClosed ==
  (pc = "done" /\ ~hist.initFailed) =>
    \A i \in 1..Len(conns) : conns[i].closeAttempted

\* The rows whose processing has ended: the row at hand is not one of them
\* while its statements are under way, nor when reading it raised.
InFlight ==
  \/ pc \in {"savepoint", "insert", "release", "handler"}
  \/ pc = "raised" /\ exc # "DatabaseError"
Processed == IF InFlight THEN idx - 1 ELSE idx
Accounted == rows_inserted + skipped_empty + rejected

\* C11: every processed row is counted once: no counter ever decreases, a step
\* adds at most one to their sum, the sum is the number of rows processed so
\* far, and it is the number of rows once the loop has run to exhaustion.
C11_EveryRowAccounted ==
  [][ /\ rows_inserted' >= rows_inserted
      /\ skipped_empty' >= skipped_empty
      /\ rejected' >= rejected
      /\ Accounted' - Accounted \in {0, 1}
      /\ Accounted' = Processed'
      /\ (pc = "loop" /\ pc' = "commit") => Accounted' = Len(rows) ]_vars

C11_Witness ==
  /\ pc = "done"
  /\ Len(rows) = 3
  /\ BlankLine(rows[2])
  /\ hist.released = {1}
  /\ hist.isolated = {3}
  /\ rows_inserted = 1
  /\ skipped_empty = 1
  /\ rejected = 1
  /\ committed
  /\ Persisted = {1}

\* C12: reading a row never raises, whatever the number of its fields.
C12_RowProcessingNeverRaises ==
  pc = "raised" => exc \notin {"AttributeError", "KeyError"}

\* The savepoints sp_row established and not released in a transaction.
OpenSavepoints(c) == Len(SelectSeq(c.txn, LAMBDA x : x = SP))

\* C14: no transaction ever holds more than one unreleased savepoint sp_row,
\* and between rows the live transaction holds none.
C14_AtMostOneSavepoint ==
  /\ \A i \in 1..Len(conns) : OpenSavepoints(conns[i]) <= 1
  /\ (pc = "loop" /\ cur # 0) => OpenSavepoints(conns[cur]) = 0

\* C15: nothing is persisted before the commit returns, commit is called at
\* most once and only in finalization, and when the run has ended the rows
\* persisted are none or all the rows the run reports as inserted.
C15_CommitOnlyDurabilityPoint ==
  /\ ~committed => table = <<>>
  /\ hist.commits <= 1
  /\ hist.commits = 1 =>
       pc \in {"commit_rollback", "cur_close", "conn_close", "done"}
  /\ Ended => (Persisted = {} \/ Persisted = hist.released)

Increasing(s) == \A i, j \in 1..Len(s) : i < j => s[i] < s[j]

\* C16: rows are processed one at a time in source order. A savepoint is
\* opened only when the attempt of every earlier row has ended (released, or
\* rolled back and the transaction usable again); the only row a transaction
\* holds unreleased is the one at hand; and the rows persisted by a successful
\* commit are source rows in source order.
C16_OneRowAtATimeInOrder ==
  /\ \A i \in 1..Len(conns) :
       /\ Increasing(TxnRows(conns[i]))
       /\ \A k \in 1..Len(conns[i].txn) :
            LET r == conns[i].txn[k]
            IN (r # SP /\ r \notin hist.released) =>
                 (r = idx /\ i = cur /\
                    pc \in {"release", "handler", "full_rollback"})
  /\ pc = "savepoint" =>
       /\ failedAt = "none"
       /\ ~conns[cur].aborted
       /\ Accounted = idx - 1
  /\ committed =>
       /\ Increasing(table)
       /\ Persisted \subseteq 1..Len(rows)

C16_Witness ==
  /\ pc = "done"
  /\ committed
  /\ table = <<1, 3>>
  /\ hist.isolated = {2}

\* The rows whose savepoint was released on connection c.
ReleasedOn(c) == {p[1] : p \in {q \in hist.releasedOn : q[2] = c}}

\* C18: after a successful commit the rows persisted are exactly the rows
\* released on the connection live at commit time, while rows_inserted counts
\* the releases of every connection of the run.
C18_PersistedAreLiveReleases ==
  committed =>
    /\ Persisted = ReleasedOn(conn)
    /\ rows_inserted = Cardinality(hist.releasedOn)

\* A measure of what is left of the run: the rows not yet taken weigh more
\* than any position within a row, the positions of finalization less.
Rank ==
  LET left == 10 * (Len(rows) - idx)
  IN CASE pc = "exists" -> left + 30
       [] pc = "connect" -> left + 20
       [] pc = "savepoint" -> left + 18
       [] pc = "insert" -> left + 17
       [] pc = "release" -> left + 16
       [] pc = "handler" -> left + 15
       [] pc = "full_rollback" -> left + 14
       [] pc = "close_old" -> left + 13
       [] pc = "reconnect" -> left + 12
       [] pc = "loop" -> left + 9
       [] pc = "commit" -> 5
       [] pc = "commit_rollback" -> 4
       [] pc = "cur_close" -> 3
       [] pc = "conn_close" -> 2
       [] OTHER -> 0

Copies(r) == Cardinality({i \in 1..Len(table) : table[i] = r})

\* C13: no idempotence. When the same object has been run twice and neither
\* run met a failure, the second run reports as many inserts as the first,
\* and every row that is not blank is persisted twice.
C13_SecondRunDoublesRows ==
  (Len(hist.past) = 1 /\ pc = "done" /\ blobExists /\ ~hist.faults) =>
    /\ hist.past[1].ended = "done"
    /\ rows_inserted = hist.past[1].inserted
    /\ Len(table) = 2 * hist.past[1].inserted
    /\ \A i \in 1..Len(rows) :
         Copies(i) = IF BlankLine(rows[i]) THEN 0 ELSE 2

C13_Witness ==
  /\ Len(hist.past) = 1
  /\ pc = "done"
  /\ ~hist.faults
  /\ Len(rows) = 3
  /\ skipped_empty = 1
  /\ rows_inserted = 2
  /\ Len(table) = 4

----------------------------------------------------------------------------
(* Properties of the uploader service. *)

\* The request has been answered.
Responded == up.pc = "responded"

\* The request asks for a name: its body is an object with a non-empty text
\* under "filename".
NamesFile == up.body.kind = "object" /\ IsName(up.body.filename)

\* The approvals lookup returned an existing document whose "approved" is
\* true in the sense of the test the code applies to it, bool().
ApprovedDoc == up.lookedUp /\ up.doc.exists /\ ApprovedField(up.doc)

\* The status the checks give when run in the order authentication,
\* approval, filename, signing.
StatusInOrder ==
  IF ~up.verified THEN 401
  ELSE IF ~ApprovedDoc THEN 403
  ELSE IF up.body.kind = "malformed" THEN 400
  ELSE IF up.body.kind = "object" /\ up.body.filename \in {Absent, None, Str(<<>>)}
    THEN 400
  ELSE IF up.url = <<>> THEN 500
  ELSE 200

\* C19: a signed URL is generated, an audit record written and 200 answered
\* only for a request whose bearer token was verified and whose approvals
\* document exists with approved true (true as bool() tests it); the answer
\* is the one of the first check that fails, in the order authentication
\* 401, approval 403, filename 400, signing 500; a failed verification or a
\* failed lookup denies the request, with no URL signed and no audit record.
C19_GrantOnlyWhenVerifiedAndApproved ==
  /\ (\/ up.signCalls > 0
      \/ up.url # <<>>
      \/ up.auditCalls > 0
      \/ up.upload_requests # <<>>
      \/ up.status = 200)
       => /\ StartsWithBearer(up.header)
          /\ Genuine(IdToken(up.header))
          /\ up.verified
          /\ ApprovedDoc
          /\ NamesFile
  /\ up.status = 200 => /\ up.url # <<>>
                        /\ up.auditCalls = 1
                        /\ up.response.url = up.url[1]
  /\ up.lookedUp => up.verified
  /\ Responded => up.status = StatusInOrder
  /\ (Responded /\ up.status # 200) =>
       /\ up.upload_requests = <<>>
       /\ up.auditCalls = 0
       /\ DOMAIN up.response = {"error"}
  /\ ("Token verification failed" \in up.log \/ "Firestore check failed" \in up.log)
       => /\ up.signCalls = 0 /\ up.url = <<>> /\ up.upload_requests = <<>>
          /\ Responded
          /\ up.status = IF up.verified THEN 403 ELSE 401

C19_Witness ==
  /\ Responded
  /\ up.status = 200
  /\ up.doc.approved = "True"
  /\ up.header = <<"Bearer", " ", " ", "good", " ">>
  /\ up.body.filename = Str(<<".", ".", "/", "a">>)
  /\ up.object_name = <<"incoming", "/", "_", "_", "a">>
  /\ Len(up.upload_requests) = 1

\* C20: once a request has reached the audit step, the answer is 200 with
\* the signed URL, the object name and the expiry computed before the write,
\* whether the write of the upload_requests record succeeded or failed; a
\* failed write is logged and the request is still answered.
C20_AuditNeverChangesResponse ==
  up.auditCalls > 0 =>
    /\ up.pc \in {"respond", "responded"}
    /\ up.auditCalls = 1
    /\ up.url = <<SignedUrl(ObjectName(up.body.filename.s), ContentType(up.body))>>
    /\ up.object_name = ObjectName(up.body.filename.s)
    /\ up.expires_at = <<up.now[1] + SIGNED_URL_EXP_MIN>>
    /\ Len(up.upload_requests) =
         (IF "Failed to record upload request" \in up.log THEN 0 ELSE 1)
    /\ Responded =>
         /\ up.status = 200
         /\ up.response = [url |-> up.url[1], object |-> up.object_name,
                           expires_at |-> up.expires_at[1]]

C20_Witness ==
  /\ Responded
  /\ up.status = 200
  /\ "Failed to record upload request" \in up.log
  /\ up.upload_requests = <<>>
  /\ up.response.expires_at = 50 + SIGNED_URL_EXP_MIN

====
